---- MODULE Spec2Model ----
(***************************************************************************)
(* Model of the Blackjack round state machine of src/src/main.rs: the      *)
(* Game struct, its per-frame exec_cycle and the four status handlers,     *)
(* the card allocator get_random_card and the hand evaluator               *)
(* calculate_hand_score.  One iteration of the main loop (a frame, the     *)
(* "tick" of the specification) is three steps: the pressed keys are       *)
(* collected, exec_cycle runs the handler selected by the status at the    *)
(* start of the frame, and the loop sleeps until the next frame.  Window   *)
(* creation, fonts and the texture cache are not modelled; the canvas is   *)
(* modelled by what was copied to it during the frame.                     *)
(***************************************************************************)
EXTENDS Naturals, Sequences, FiniteSets

VARIABLES status, deck, used_cards, player_hand, casino_hand, canvas,
          pressed_keycodes, panicked, pc, index, ret, result

vars == <<status, deck, used_cards, player_hand, casino_hand, canvas,
          pressed_keycodes, panicked, pc, index, ret, result>>

(***************************************************************************)
(* Bounds of the model.                                                    *)
(***************************************************************************)
\* Number of deck positions the random generator's outputs are drawn from.
NumSamples == 6

\* Largest number of key-down events collected in one frame.
MaxKeys == 2

\* Largest number of dealt positions in a Game handed to a single call of
\* get_random_card, and largest number of positions left undealt in a Game
\* handed to it with the deck all but used up.
MaxUsed == 3
MaxFree == 1

\* Largest hand handed to a single call of calculate_hand_score.
MaxHand == 3

\* The deck positions enumerated as outputs of rng.gen_range(0..52), in the
\* order in which NumSamples admits them: the Aces of clubs and diamonds,
\* then the King, Five, Seven and Three of clubs, then further cards.
SampleOrder == <<48, 49, 44, 12, 20, 4, 40, 24, 0, 45, 50, 16>>

(***************************************************************************)
(* Program constants.                                                      *)
(***************************************************************************)
TWENTY_ONE == 21
CASINO_STOP_SCORE == 17

TAKE_ANOTHER_CARD_TEXT == "Press F to take another card"
STOP_TAKING_CARDS_TEXT == "Press E to stay with cards currently in hand"
PLAYER_WINS_TEXT == "Player wins!"
CASINO_WINS_TEXT == "Casino wins!"
ITS_A_TIE_TEXT == "It's a tie!"
N_TO_RESTART_THE_GAME == "Press N to restart the game"

\* CardType::iterator: the thirteen ranks in declaration order.
CardTypeIterator ==
    <<"Two", "Three", "Four", "Five", "Six", "Seven", "Eight", "Nine",
      "Ten", "Jack", "Queen", "King", "Ace">>

\* CardSuit::iterator: the four suits in declaration order.
CardSuitIterator == <<"Clubs", "Diamonds", "Hearts", "Spades">>

\* get_score with the Ace counted as 1.
get_score_ace_low(card_type) ==
    CASE card_type = "Two" -> 2
      [] card_type = "Three" -> 3
      [] card_type = "Four" -> 4
      [] card_type = "Five" -> 5
      [] card_type = "Six" -> 6
      [] card_type = "Seven" -> 7
      [] card_type = "Eight" -> 8
      [] card_type = "Nine" -> 9
      [] card_type = "Ten" -> 10
      [] card_type \in {"Jack", "Queen", "King"} -> 10
      [] card_type = "Ace" -> 1

\* CardType::get_score.
get_score(card_type) ==
    CASE card_type = "Two" -> 2
      [] card_type = "Three" -> 3
      [] card_type = "Four" -> 4
      [] card_type = "Five" -> 5
      [] card_type = "Six" -> 6
      [] card_type = "Seven" -> 7
      [] card_type = "Eight" -> 8
      [] card_type = "Nine" -> 9
      [] card_type = "Ten" -> 10
      [] card_type \in {"Jack", "Queen", "King"} -> 10
      [] card_type = "Ace" -> 11

\* get_deck: rank-major, suit-minor; position p of the Rust vector is
\* element p + 1 of the sequence.
get_deck ==
    [i \in 1..(Len(CardTypeIterator) * Len(CardSuitIterator)) |->
        [card_type |-> CardTypeIterator[((i - 1) \div Len(CardSuitIterator)) + 1],
         card_suit |-> CardSuitIterator[((i - 1) % Len(CardSuitIterator)) + 1]]]

(***************************************************************************)
(* Values.                                                                 *)
(***************************************************************************)
\* enum Winner
Winner == {"Player", "Casino", "Tie"}

\* enum GameStatus
Uninitialized == [tag |-> "Uninitialized"]
AwaitingPlayerDecision == [tag |-> "AwaitingPlayerDecision"]
PlayerStopedTakingCards == [tag |-> "PlayerStopedTakingCards"]
GameOver(winner) == [tag |-> "GameOver", winner |-> winner]

\* Option<usize>
None == <<>>
Some(position) == <<position>>
unwrap(option) == option[1]

\* The keycodes a KeyDown event can carry into pressed_keycodes (Escape
\* ends the main loop and never reaches exec_cycle); "A" stands for any
\* key the game does not react to.
Keycode == {"F", "E", "N", "A"}

\* The values of pressed_keycodes at the call of exec_cycle.
KeycodeLists == UNION {[1..n -> Keycode] : n \in 0..MaxKeys}

\* Vec::contains
contains(vec, x) == \E i \in 1..Len(vec) : vec[i] = x

\* canvas.clear(): nothing copied yet in this frame.
ClearedCanvas == [texts |-> {}, casino |-> <<>>, player |-> <<>>]

\* The Game struct as a value.
Self ==
    [status |-> status, deck |-> deck, used_cards |-> used_cards,
     player_hand |-> player_hand, casino_hand |-> casino_hand,
     canvas |-> canvas, panicked |-> panicked]

(***************************************************************************)
(* Hand evaluator.                                                         *)
(***************************************************************************)
RECURSIVE calculate_hand_score(_, _)
calculate_hand_score(self, hand) ==
    IF hand = <<>> THEN 0
    ELSE calculate_hand_score(self, SubSeq(hand, 1, Len(hand) - 1))
         + get_score(self.deck[hand[Len(hand)] + 1].card_type)

(***************************************************************************)
(* Card allocator.                                                         *)
(***************************************************************************)
\* rng.gen_range(low..high): the outputs enumerated by the model.
gen_range(low, high) ==
    {SampleOrder[i] : i \in 1..NumSamples} \cap {p \in low..(high + 51) : p < high}

\* get_random_card without the resampling loop: the first sample is taken
\* even when it is in used_cards.
get_random_card_no_resample(self) ==
    IF Len(self.deck) <= Len(self.used_cards)
    THEN {[ret |-> None, self |-> self]}
    ELSE {[ret |-> Some(sampled),
           self |-> [self EXCEPT !.used_cards = Append(@, sampled)]] :
            sampled \in gen_range(0, Len(self.deck))}

\* get_random_card without the push of the chosen index to used_cards.
get_random_card_no_push(self) ==
    IF Len(self.deck) <= Len(self.used_cards)
    THEN {[ret |-> None, self |-> self]}
    ELSE {[ret |-> Some(sampled), self |-> self] :
            sampled \in {i \in gen_range(0, Len(self.deck)) :
                          ~contains(self.used_cards, i)}}

\* get_random_card: the set of possible outcomes, each the returned Option
\* and the Game after the call.  The loop resamples while the index is in
\* used_cards, so it exits exactly on the sampled indices not contained.
get_random_card(self) ==
    IF Len(self.deck) <= Len(self.used_cards)
    THEN {[ret |-> None, self |-> self]}
    ELSE {[ret |-> Some(sampled),
           self |-> [self EXCEPT !.used_cards = Append(@, sampled)]] :
            sampled \in {i \in gen_range(0, Len(self.deck)) :
                          ~contains(self.used_cards, i)}}

\* Option::unwrap on None: the thread panics and the process ends.
panic(self) == [self EXCEPT !.panicked = TRUE]

\* let random_card = self.get_random_card().unwrap();
\* self.casino_hand.push(random_card);
deal_casino(self) ==
    IF self.panicked THEN {self}
    ELSE {IF r.ret = None THEN panic(r.self)
          ELSE [r.self EXCEPT !.casino_hand = Append(@, unwrap(r.ret))] :
            r \in get_random_card(self)}

\* let random_card = self.get_random_card().unwrap();
\* self.player_hand.push(random_card);
deal_player(self) ==
    IF self.panicked THEN {self}
    ELSE {IF r.ret = None THEN panic(r.self)
          ELSE [r.self EXCEPT !.player_hand = Append(@, unwrap(r.ret))] :
            r \in get_random_card(self)}

(***************************************************************************)
(* Status handlers.  Each maps the Game at the start of the frame to the   *)
(* set of Games it can leave behind.                                       *)
(***************************************************************************)
\* initial_status with >= in place of ==.
initial_status_at_least(player_score) ==
    IF player_score >= TWENTY_ONE
    THEN PlayerStopedTakingCards
    ELSE AwaitingPlayerDecision

\* The status chosen after the initial deal.
initial_status(player_score) ==
    IF player_score = TWENTY_ONE
    THEN PlayerStopedTakingCards
    ELSE AwaitingPlayerDecision

exec_game_uninitialized(self) ==
    LET s1 == deal_casino(self)
        s2 == UNION {deal_player(g) : g \in s1}
        s3 == UNION {deal_player(g) : g \in s2}
    IN  {IF g.panicked THEN g
         ELSE [g EXCEPT !.status =
                  initial_status(calculate_hand_score(g, g.player_hand))] :
           g \in s3}

\* hit_status without the branch for exactly 21.
hit_status_bust_only(old_status, player_score) ==
    IF player_score > TWENTY_ONE THEN GameOver("Casino")
    ELSE old_status

\* The status after a hit, given the status before it and the new score.
hit_status(old_status, player_score) ==
    IF player_score > TWENTY_ONE THEN GameOver("Casino")
    ELSE IF player_score = TWENTY_ONE THEN PlayerStopedTakingCards
    ELSE old_status

\* decision with the restart key taken for a stand.
decision_restart_stands(keycodes) ==
    IF contains(keycodes, "F") THEN "hit"
    ELSE IF contains(keycodes, "E") \/ contains(keycodes, "N") THEN "stand"
    ELSE "none"

\* decision with the two key tests in the other order.
decision_stand_first(keycodes) ==
    IF contains(keycodes, "E") THEN "stand"
    ELSE IF contains(keycodes, "F") THEN "hit"
    ELSE "none"

\* Which branch of the key test is taken.
decision(keycodes) ==
    IF contains(keycodes, "F") THEN "hit"
    ELSE IF contains(keycodes, "E") THEN "stand"
    ELSE "none"

\* The hit branch.
hit(self) ==
    {IF g.panicked THEN g
     ELSE [g EXCEPT !.status =
              hit_status(g.status, calculate_hand_score(g, g.player_hand))] :
       g \in deal_player(self)}

\* stand that leaves the status alone.
stand_ignored(self) == {self}

\* The stand branch.
stand(self) == {[self EXCEPT !.status = PlayerStopedTakingCards]}

\* exec_game_awaiting_player_decision with the prompts copied only in the
\* branch that takes no decision.
exec_game_awaiting_prompt_when_idle(self, keycodes) ==
    LET prompted ==
            [self EXCEPT !.canvas.texts =
                @ \cup {TAKE_ANOTHER_CARD_TEXT, STOP_TAKING_CARDS_TEXT}]
    IN  CASE decision(keycodes) = "hit" -> hit(self)
          [] decision(keycodes) = "stand" -> stand(self)
          [] OTHER -> {prompted}

exec_game_awaiting_player_decision(self, keycodes) ==
    LET prompted ==
            [self EXCEPT !.canvas.texts =
                @ \cup {TAKE_ANOTHER_CARD_TEXT, STOP_TAKING_CARDS_TEXT}]
    IN  CASE decision(keycodes) = "hit" -> hit(prompted)
          [] decision(keycodes) = "stand" -> stand(prompted)
          [] OTHER -> {prompted}

\* winner_text with the messages of the two winners exchanged.
winner_text_exchanged(winner) ==
    CASE winner = "Casino" -> PLAYER_WINS_TEXT
      [] winner = "Player" -> CASINO_WINS_TEXT
      [] winner = "Tie" -> ITS_A_TIE_TEXT

\* The message for the winner of a finished round.
winner_text(winner) ==
    CASE winner = "Casino" -> CASINO_WINS_TEXT
      [] winner = "Player" -> PLAYER_WINS_TEXT
      [] winner = "Tie" -> ITS_A_TIE_TEXT

\* restart that keeps the dealt positions.
restart_keep_used(self) ==
    [self EXCEPT !.status = Uninitialized,
                 !.player_hand = <<>>,
                 !.casino_hand = <<>>]

\* restart that resumes the player's turn instead of dealing anew.
restart_to_awaiting(self) ==
    [self EXCEPT !.status = AwaitingPlayerDecision,
                 !.used_cards = <<>>,
                 !.player_hand = <<>>,
                 !.casino_hand = <<>>]

\* The restart branch.
restart(self) ==
    [self EXCEPT !.status = Uninitialized,
                 !.used_cards = <<>>,
                 !.player_hand = <<>>,
                 !.casino_hand = <<>>]

exec_game_game_over(self, keycodes) ==
    IF self.status.tag # "GameOver" THEN {self}
    ELSE LET shown ==
                 [self EXCEPT !.canvas.texts =
                     @ \cup {winner_text(self.status.winner),
                             N_TO_RESTART_THE_GAME}]
         IN  IF contains(keycodes, "N") THEN {restart(shown)} ELSE {shown}

\* casino_should_draw with || in place of &&.
casino_should_draw_either(casino_score, player_score) ==
    casino_score < CASINO_STOP_SCORE \/ casino_score <= player_score

\* casino_should_draw with < in place of <= on the player's score.
casino_should_draw_below(casino_score, player_score) ==
    casino_score < CASINO_STOP_SCORE /\ casino_score < player_score

\* The condition of the dealer's while loop.
casino_should_draw(casino_score, player_score) ==
    casino_score < CASINO_STOP_SCORE /\ casino_score <= player_score

\* The dealer's while loop.
RECURSIVE casino_draw_loop(_, _)
casino_draw_loop(self, player_score) ==
    IF self.panicked THEN {self}
    ELSE IF casino_should_draw(calculate_hand_score(self, self.casino_hand),
                               player_score)
         THEN UNION {casino_draw_loop(g, player_score) : g \in deal_casino(self)}
         ELSE {self}

\* The winner chosen after the dealer's loop.
winner_of(player_score, casino_score) ==
    IF casino_score > TWENTY_ONE THEN "Player"
    ELSE IF casino_score > player_score THEN "Casino"
    ELSE IF casino_score < player_score THEN "Player"
    ELSE "Tie"

\* exec_game_player_stopped_taking_cards with an if in place of the while:
\* one dealer card per frame, the winner decided once the dealer stops.
exec_game_player_stopped_one_draw(self) ==
    LET player_score == calculate_hand_score(self, self.player_hand)
        casino_score == calculate_hand_score(self, self.casino_hand)
    IN  IF casino_should_draw(casino_score, player_score)
        THEN deal_casino(self)
        ELSE {[self EXCEPT !.status =
                  GameOver(winner_of(player_score, casino_score))]}

exec_game_player_stopped_taking_cards(self) ==
    LET player_score == calculate_hand_score(self, self.player_hand)
    IN  {IF g.panicked THEN g
         ELSE [g EXCEPT !.status =
                  GameOver(winner_of(player_score,
                                     calculate_hand_score(g, g.casino_hand)))] :
           g \in casino_draw_loop(self, player_score)}

\* render_hands: the card of every hand position is copied to the canvas.
render_hands(self) ==
    [self EXCEPT
        !.canvas.casino = [i \in 1..Len(self.casino_hand) |->
                              self.deck[self.casino_hand[i] + 1]],
        !.canvas.player = [i \in 1..Len(self.player_hand) |->
                              self.deck[self.player_hand[i] + 1]]]

\* exec_cycle: clear the canvas, run the handler of the current status,
\* render the hands.  A panic ends the process before anything else runs.
exec_cycle(self, keycodes) ==
    LET cleared == [self EXCEPT !.canvas = ClearedCanvas]
        after ==
            CASE self.status.tag = "Uninitialized" ->
                    exec_game_uninitialized(cleared)
              [] self.status.tag = "AwaitingPlayerDecision" ->
                    exec_game_awaiting_player_decision(cleared, keycodes)
              [] self.status.tag = "GameOver" ->
                    exec_game_game_over(cleared, keycodes)
              [] self.status.tag = "PlayerStopedTakingCards" ->
                    exec_game_player_stopped_taking_cards(cleared)
    IN  {IF g.panicked THEN g ELSE render_hands(g) : g \in after}

(***************************************************************************)
(* The state machine.                                                      *)
(***************************************************************************)
\* Game::new with the deck of get_deck, at the top of the main loop.
Init ==
    /\ status = Uninitialized
    /\ deck = get_deck
    /\ used_cards = <<>>
    /\ player_hand = <<>>
    /\ casino_hand = <<>>
    /\ canvas = ClearedCanvas
    /\ pressed_keycodes = <<>>
    /\ panicked = FALSE
    /\ pc = "poll"
    /\ index = 0
    /\ ret = None
    /\ result = 0

\* The fields of the Game that belong to the state of the model.
game == <<status, deck, used_cards, player_hand, casino_hand, canvas, panicked>>

\* The locals of get_random_card and calculate_hand_score, which the frame
\* steps run as a whole: index and the returned Option of the former, the
\* accumulator of the latter.
locals == <<index, ret, result>>

\* The event loop of main: the key-down events since the last frame are
\* pushed to a fresh pressed_keycodes.
PollEvents ==
    /\ pc = "poll"
    /\ pressed_keycodes' \in KeycodeLists
    /\ pc' = "exec_cycle"
    /\ UNCHANGED <<game, locals>>

\* game.exec_cycle(&pressed_keycodes) in a frame that starts with a status
\* of the given tag.
main_exec_cycle(tag) ==
    /\ pc = "exec_cycle"
    /\ status.tag = tag
    /\ \E g \in exec_cycle(Self, pressed_keycodes) :
          /\ status' = g.status
          /\ deck' = g.deck
          /\ used_cards' = g.used_cards
          /\ player_hand' = g.player_hand
          /\ casino_hand' = g.casino_hand
          /\ canvas' = g.canvas
          /\ panicked' = g.panicked
          /\ pc' = IF g.panicked THEN "panicked" ELSE "sleep"
    /\ UNCHANGED <<pressed_keycodes, locals>>

\* The four arms of the match in exec_cycle.
FrameUninitialized ==
    /\ status = Uninitialized
    /\ main_exec_cycle("Uninitialized")

FrameAwaitingPlayerDecision ==
    /\ status = AwaitingPlayerDecision
    /\ main_exec_cycle("AwaitingPlayerDecision")

FrameGameOver ==
    /\ status \in {GameOver(w) : w \in Winner}
    /\ main_exec_cycle("GameOver")

FramePlayerStopedTakingCards ==
    /\ status = PlayerStopedTakingCards
    /\ main_exec_cycle("PlayerStopedTakingCards")

\* The sleep that ends the frame; pressed_keycodes is dropped and the loop
\* starts over.
Sleep ==
    /\ pc = "sleep"
    /\ pressed_keycodes' = <<>>
    /\ pc' = "poll"
    /\ UNCHANGED <<game, locals>>

Next ==
    \/ PollEvents
    \/ FrameUninitialized
    \/ FrameAwaitingPlayerDecision
    \/ FrameGameOver
    \/ FramePlayerStopedTakingCards
    \/ Sleep

Spec == Init /\ [][Next]_vars

\* The event loop delivers a key the player decides with, F or E, in a
\* frame of the player's turn.
PollDecision ==
    /\ status = AwaitingPlayerDecision
    /\ PollEvents
    /\ contains(pressed_keycodes', "F") \/ contains(pressed_keycodes', "E")

\* The event loop and the sleep at the end of a frame always return, and
\* the player does not idle forever: in the player's turn, frames with F
\* or E among their keys keep coming.  Whether exec_cycle returns is left
\* to the draws it makes.
FairSpec ==
    Spec /\ WF_vars(PollEvents) /\ WF_vars(Sleep) /\ SF_vars(PollDecision)

(***************************************************************************)
(* A single call of get_random_card, statement by statement.               *)
(***************************************************************************)
\* The positions 0..51 in order, without those of the set free.
AllBut(free) ==
    SelectSeq([i \in 1..Len(get_deck) |-> i - 1], LAMBDA p : p \notin free)

\* The sequences of at most n distinct positions the generator produces.
DistinctSamples(n) ==
    {u \in UNION {[1..k -> gen_range(0, Len(get_deck))] : k \in 0..n} :
        \A i, j \in 1..Len(u) : u[i] = u[j] => i = j}

\* The Game and the locals at a call of get_random_card with the dealt
\* positions u: the first went to the dealer, the others to the player; the
\* calls of the initial deal are made in Uninitialized, the later ones by a
\* hit in AwaitingPlayerDecision, after the prompts were copied.
AtCall(u) ==
    /\ used_cards = u
    /\ deck = get_deck
    /\ casino_hand = IF Len(u) = 0 THEN <<>> ELSE <<u[1]>>
    /\ player_hand = IF Len(u) <= 1 THEN <<>> ELSE SubSeq(u, 2, Len(u))
    /\ status = IF Len(u) < 3 THEN Uninitialized ELSE AwaitingPlayerDecision
    /\ canvas = IF Len(u) < 3 THEN ClearedCanvas
                ELSE [ClearedCanvas EXCEPT !.texts =
                        {TAKE_ANOTHER_CARD_TEXT, STOP_TAKING_CARDS_TEXT}]
    /\ pressed_keycodes = IF Len(u) < 3 THEN <<>> ELSE <<"F">>
    /\ panicked = FALSE
    /\ pc = "get_random_card"
    /\ index = 0
    /\ ret = None
    /\ result = 0

\* The player's hand of u has not ended the player's turn: its first two
\* cards do not make 21 and it has stayed below 21 since.
StillDeciding(u) ==
    LET hand == SubSeq(u, 2, Len(u))
        score(h) == calculate_hand_score([deck |-> get_deck], h)
    IN  Len(u) >= 3 =>
           /\ score(SubSeq(hand, 1, 2)) # TWENTY_ONE
           /\ \A k \in 3..Len(hand) : score(SubSeq(hand, 1, k)) < TWENTY_ONE

\* The calls made by the initial deal and by the hits of a round, with up
\* to MaxUsed positions dealt.
DrawInit ==
    \E u \in {v \in DistinctSamples(MaxUsed) : StillDeciding(v)} : AtCall(u)

\* The calls of DrawInit, and calls on a Game with all positions dealt but
\* at most MaxFree of them.
AllocInit ==
    \/ DrawInit
    \/ \E free \in {f \in SUBSET gen_range(0, Len(get_deck)) :
                        Cardinality(f) <= MaxFree} : AtCall(AllBut(free))

\* What a step of the call leaves alone.
alloc_frame == <<status, deck, player_hand, casino_hand, canvas,
                 pressed_keycodes, panicked, result>>

\* AllocCall with < in place of <=.
AllocCall_strict ==
    /\ pc = "get_random_card"
    /\ IF Len(deck) < Len(used_cards)
       THEN /\ ret' = None
            /\ pc' = "return"
            /\ UNCHANGED index
       ELSE /\ index' \in gen_range(0, Len(deck))
            /\ pc' = "while"
            /\ UNCHANGED ret
    /\ UNCHANGED <<used_cards, alloc_frame>>

\* The exhaustion test and the first sample.
AllocCall ==
    /\ pc = "get_random_card"
    /\ IF Len(deck) <= Len(used_cards)
       THEN /\ ret' = None
            /\ pc' = "return"
            /\ UNCHANGED index
       ELSE /\ index' \in gen_range(0, Len(deck))
            /\ pc' = "while"
            /\ UNCHANGED ret
    /\ UNCHANGED <<used_cards, alloc_frame>>

\* An iteration of the while loop: the index is in used_cards and another
\* one is sampled.
AllocResample ==
    /\ pc = "while"
    /\ contains(used_cards, index)
    /\ index' \in gen_range(0, Len(deck))
    /\ UNCHANGED <<pc, ret, used_cards, alloc_frame>>

\* The exit of the loop: the index is pushed and returned.
AllocReturn ==
    /\ pc = "while"
    /\ ~contains(used_cards, index)
    /\ used_cards' = Append(used_cards, index)
    /\ ret' = Some(index)
    /\ pc' = "return"
    /\ UNCHANGED <<index, alloc_frame>>

AllocNext ==
    \/ AllocCall
    \/ AllocResample
    \/ AllocReturn

AllocSpec == AllocInit /\ [][AllocNext]_vars

\* The calls of a round; the thread that makes the call keeps running.
DrawFairSpec == DrawInit /\ [][AllocNext]_vars /\ WF_vars(AllocNext)

(***************************************************************************)
(* A call of calculate_hand_score on its own: the hand evaluator applied   *)
(* to the player's hand, the result kept in the caller's local.            *)
(***************************************************************************)
\* The hands scored: every single position of the deck, and the sequences
\* of up to MaxHand distinct positions among the clubs and the Ace of
\* diamonds.
ScoredHands ==
    LET some == {4 * r : r \in 0..(Len(CardTypeIterator) - 1)} \cup {49}
    IN  {<<p>> : p \in 0..(Len(get_deck) - 1)} \cup
        {u \in UNION {[1..k -> some] : k \in 0..MaxHand} :
            \A i, j \in 1..Len(u) : u[i] = u[j] => i = j}

ScoreInit ==
    /\ player_hand \in ScoredHands
    /\ used_cards = player_hand
    /\ casino_hand = <<>>
    /\ deck = get_deck
    /\ status = Uninitialized
    /\ canvas = ClearedCanvas
    /\ pressed_keycodes = <<>>
    /\ panicked = FALSE
    /\ pc = "calculate_hand_score"
    /\ index = 0
    /\ ret = None
    /\ result = 0

\* let player_score = self.calculate_hand_score(&self.player_hand)
ScoreCall ==
    /\ pc = "calculate_hand_score"
    /\ result' = calculate_hand_score(Self, player_hand)
    /\ pc' = "return"
    /\ UNCHANGED <<game, pressed_keycodes, index, ret>>

ScoreSpec == ScoreInit /\ [][ScoreCall]_vars

(***************************************************************************)
(* Properties.                                                             *)
(***************************************************************************)
PlayerScore == calculate_hand_score(Self, player_hand)
CasinoScore == calculate_hand_score(Self, casino_hand)
HandScore(hand) == calculate_hand_score(Self, hand)

\* exec_cycle is about to run in a frame that starts with status s.
FrameStarts(s) == pc = "exec_cycle" /\ status = s
FrameStartsGameOver == pc = "exec_cycle" /\ status.tag = "GameOver"

\* exec_cycle has just run.
FrameEnded == pc = "sleep"
Prompted == TAKE_ANOTHER_CARD_TEXT \in canvas.texts

IsPrefix(s, t) == Len(s) <= Len(t) /\ SubSeq(t, 1, Len(s)) = s
NoDuplicates(s) == \A i, j \in 1..Len(s) : s[i] = s[j] => i = j

\* C1: a frame that starts in Uninitialized ends with two player cards, one
\* dealer card, and status PlayerStopedTakingCards if the two cards score
\* exactly 21, AwaitingPlayerDecision for every other score.
C1_InitialDeal ==
    [][FrameStarts(Uninitialized) =>
         /\ Len(player_hand') = 2
         /\ Len(casino_hand') = 1
         /\ status' = IF PlayerScore' = 21
                      THEN PlayerStopedTakingCards
                      ELSE AwaitingPlayerDecision]_vars

\* A natural 21 has just been dealt.
C1_Witness ==
    /\ FrameEnded
    /\ canvas.texts = {}
    /\ status = PlayerStopedTakingCards
    /\ Len(player_hand) = 2
    /\ Len(casino_hand) = 1
    /\ PlayerScore = 21

\* C2: a frame that starts in AwaitingPlayerDecision with F among the keys
\* appends exactly one card to the player's hand, leaves the dealer's hand
\* alone, and ends in GameOver(Casino) above 21, PlayerStopedTakingCards at
\* 21 and AwaitingPlayerDecision below 21.
C2_Hit ==
    [][(FrameStarts(AwaitingPlayerDecision) /\ contains(pressed_keycodes, "F")) =>
         /\ Len(player_hand') = Len(player_hand) + 1
         /\ IsPrefix(player_hand, player_hand')
         /\ casino_hand' = casino_hand
         /\ status' = IF PlayerScore' > 21 THEN GameOver("Casino")
                      ELSE IF PlayerScore' = 21 THEN PlayerStopedTakingCards
                      ELSE AwaitingPlayerDecision]_vars

\* F pressed twice in one frame has dealt one card, which made exactly 21.
C2_Witness ==
    /\ FrameEnded
    /\ Prompted
    /\ pressed_keycodes = <<"F", "F">>
    /\ Len(player_hand) = 3
    /\ PlayerScore = 21
    /\ status = PlayerStopedTakingCards

\* C3: in a frame that starts in AwaitingPlayerDecision, F and E together
\* act as F alone; E moves the status to PlayerStopedTakingCards without a
\* card being dealt, and only when F is not among the keys.
C3_HitBeforeStand ==
    [][FrameStarts(AwaitingPlayerDecision) =>
         /\ (contains(pressed_keycodes, "F") /\ contains(pressed_keycodes, "E")) =>
               /\ Len(player_hand') = Len(player_hand) + 1
               /\ Len(used_cards') = Len(used_cards) + 1
               /\ casino_hand' = casino_hand
               /\ PlayerScore' < 21 => status' = AwaitingPlayerDecision
               /\ PlayerScore' = 21 => status' = PlayerStopedTakingCards
               /\ PlayerScore' > 21 => status' = GameOver("Casino")
         /\ (contains(pressed_keycodes, "E") /\ ~contains(pressed_keycodes, "F")) =>
               /\ status' = PlayerStopedTakingCards
               /\ player_hand' = player_hand
               /\ casino_hand' = casino_hand
               /\ used_cards' = used_cards
         /\ (status' = PlayerStopedTakingCards /\ used_cards' = used_cards) =>
               (contains(pressed_keycodes, "E") /\ ~contains(pressed_keycodes, "F"))]_vars

\* F and E were pressed together, a card was dealt and the player is still
\* to decide.
C3_Witness ==
    /\ FrameEnded
    /\ Prompted
    /\ contains(pressed_keycodes, "F")
    /\ contains(pressed_keycodes, "E")
    /\ Len(player_hand) = 3
    /\ status = AwaitingPlayerDecision

\* C4: a frame that starts in PlayerStopedTakingCards leaves the player's
\* hand alone, appends at most deck-size cards to the dealer's hand, drew
\* each of them at a dealer score below 17 and not above the player's, and
\* ends with a dealer score of at least 17 or above the player's (or with
\* the deck exhausted).
C4_DealerLoop ==
    [][FrameStarts(PlayerStopedTakingCards) =>
         /\ player_hand' = player_hand
         /\ IsPrefix(casino_hand, casino_hand')
         /\ Len(casino_hand') <= Len(casino_hand) + Len(deck)
         /\ \A k \in 1..Len(casino_hand') :
               (Len(casino_hand) <= k /\ k < Len(casino_hand')) =>
                  /\ HandScore(SubSeq(casino_hand', 1, k)) < 17
                  /\ HandScore(SubSeq(casino_hand', 1, k)) <= PlayerScore
         /\ \/ CasinoScore' >= 17
            \/ CasinoScore' > PlayerScore
            \/ Len(used_cards') >= Len(deck)]_vars

\* The dealer has just drawn at least three cards in one frame.
C4_Witness ==
    /\ FrameEnded
    /\ canvas.texts = {}
    /\ status.tag = "GameOver"
    /\ Len(casino_hand) >= 4

\* C5: after the dealer's loop, with P the player's and D the dealer's
\* score, the frame ends in GameOver(Player) if D > 21 or D < P, in
\* GameOver(Casino) if D <= 21 and D > P, and in GameOver(Tie) if D = P.
C5_Outcome ==
    [][FrameStarts(PlayerStopedTakingCards) =>
         /\ (CasinoScore' > 21 \/ CasinoScore' < PlayerScore) =>
               status' = GameOver("Player")
         /\ (CasinoScore' <= 21 /\ CasinoScore' > PlayerScore) =>
               status' = GameOver("Casino")
         /\ CasinoScore' = PlayerScore => status' = GameOver("Tie")]_vars

\* C6 as stated: no frame ends with status PlayerStopedTakingCards.
C6_ResolvedInSameFrame == FrameEnded => status # PlayerStopedTakingCards

\* C6: the dealer's turn is played in full by the frame that starts in
\* PlayerStopedTakingCards, whatever its keys, and that frame ends in
\* GameOver; a frame that starts in Uninitialized or
\* AwaitingPlayerDecision leaves the dealer with one card, and decides no
\* winner other than Casino on a bust.
C6_ResolvedInNextFrame ==
    [][/\ FrameStarts(PlayerStopedTakingCards) => status'.tag = "GameOver"
       /\ (FrameStarts(Uninitialized) \/ FrameStarts(AwaitingPlayerDecision)) =>
             /\ Len(casino_hand') = 1
             /\ status' \notin {GameOver("Player"), GameOver("Tie")}]_vars

\* A stand was resolved by a frame in which no key was pressed.
C6_Witness ==
    /\ FrameEnded
    /\ canvas.texts = {}
    /\ pressed_keycodes = <<>>
    /\ status.tag = "GameOver"
    /\ Len(player_hand) = 2
    /\ PlayerScore < 21

\* C7: a frame that starts in GameOver with N among the keys empties
\* used_cards and both hands, sets the status to Uninitialized and leaves
\* the deck as built; in Uninitialized the allocator's candidates are all
\* the positions the generator can produce.
C7_Restart ==
    /\ [][(FrameStartsGameOver /\ contains(pressed_keycodes, "N")) =>
            /\ used_cards' = <<>>
            /\ player_hand' = <<>>
            /\ casino_hand' = <<>>
            /\ status' = Uninitialized
            /\ deck' = deck]_vars
    /\ [](status = Uninitialized =>
            /\ deck = get_deck
            /\ Len(deck) = 52
            /\ {r.ret : r \in get_random_card(Self)}
                  = {Some(i) : i \in gen_range(0, 52)})

\* A finished round has just been restarted.
C7_Witness ==
    /\ FrameEnded
    /\ contains(pressed_keycodes, "N")
    /\ N_TO_RESTART_THE_GAME \in canvas.texts
    /\ status = Uninitialized
    /\ used_cards = <<>>

\* C8: used_cards holds no position twice and only positions in 0..51,
\* every position of a hand is in used_cards, and no position occurs twice
\* in the two hands taken together.
C8_NoCardTwice ==
    /\ NoDuplicates(used_cards)
    /\ \A i \in 1..Len(used_cards) : used_cards[i] \in 0..51
    /\ \A i \in 1..Len(player_hand) : contains(used_cards, player_hand[i])
    /\ \A i \in 1..Len(casino_hand) : contains(used_cards, casino_hand[i])
    /\ NoDuplicates(player_hand \o casino_hand)

\* Both hands hold three cards.
C8_Witness ==
    /\ Len(player_hand) >= 3
    /\ Len(casino_hand) >= 3

\* C9: a successful get_random_card returns a position below the deck
\* length that was not in used_cards and appends exactly it to used_cards;
\* used_cards has as many members as cards were dealt since the last
\* reset, and between two frames of a round it only grows.
C9_AllocatorDraw ==
    /\ [](\A r \in get_random_card(Self) :
            r.ret # None =>
               /\ ~contains(used_cards, unwrap(r.ret))
               /\ unwrap(r.ret) < Len(deck)
               /\ r.self.used_cards = Append(used_cards, unwrap(r.ret)))
    /\ [](/\ Len(used_cards) = Len(player_hand) + Len(casino_hand)
          /\ Cardinality({used_cards[i] : i \in 1..Len(used_cards)})
                = Len(used_cards))
    /\ [][\/ IsPrefix(used_cards, used_cards')
          \/ (FrameStartsGameOver /\ used_cards' = <<>>)]_vars

\* Five cards have been drawn in the round.
C9_Witness ==
    /\ FrameEnded
    /\ Len(used_cards) = 5
    /\ Cardinality({used_cards[i] : i \in 1..Len(used_cards)}) = 5

\* The order of the statuses.
StatusOrder(s) ==
    CASE s.tag = "Uninitialized" -> 0
      [] s.tag = "AwaitingPlayerDecision" -> 1
      [] s.tag = "PlayerStopedTakingCards" -> 2
      [] s.tag = "GameOver" -> 3

\* C10: no step moves the status to an earlier one in the order
\* Uninitialized, AwaitingPlayerDecision, PlayerStopedTakingCards,
\* GameOver, except a frame that starts in GameOver with N among the keys,
\* which moves it to Uninitialized.
C10_ForwardOnly ==
    [][\/ StatusOrder(status') >= StatusOrder(status)
       \/ /\ FrameStartsGameOver
          /\ contains(pressed_keycodes, "N")
          /\ status' = Uninitialized]_vars

\* A hit has bust the player: AwaitingPlayerDecision went straight to
\* GameOver.
C10_Witness ==
    /\ FrameEnded
    /\ Prompted
    /\ status = GameOver("Casino")
    /\ PlayerScore > 21

\* C11: a call of get_random_card with used_cards.len() >= deck.len()
\* returns None at once, without sampling and without changing used_cards
\* or a hand.
C11_Exhausted ==
    /\ [][(pc = "get_random_card" /\ Len(used_cards) >= Len(deck)) =>
            /\ pc' = "return"
            /\ ret' = None
            /\ index' = index
            /\ used_cards' = used_cards
            /\ player_hand' = player_hand
            /\ casino_hand' = casino_hand]_vars
    /\ [](Len(used_cards) >= Len(deck) =>
            get_random_card(Self) = {[ret |-> None, self |-> Self]})

\* A call on a Game with all 52 positions dealt has returned None.
C11_Witness ==
    /\ pc = "return"
    /\ ret = None
    /\ Len(used_cards) = 52

\* C12: a call of get_random_card with an undealt position left returns,
\* whatever the generator produces.
C12_DrawTerminates ==
    (pc = "get_random_card" /\ Len(used_cards) < Len(deck)) ~> (pc = "return")

\* The score of the rank of position p, from the rules of the game: ranks
\* run Two..Ace in the deck, four positions each; 2-10 count their face
\* value, Jack, Queen and King 10, the Ace 11.
RankScore(p) ==
    LET r == p \div 4
    IN  IF r <= 8 THEN r + 2 ELSE IF r <= 11 THEN 10 ELSE 11

RECURSIVE RankSum(_)
RankSum(hand) ==
    IF hand = <<>> THEN 0 ELSE RankScore(hand[1]) + RankSum(SubSeq(hand, 2, Len(hand)))

\* The rearrangements of a hand.
Rearranged(hand) ==
    {[i \in 1..Len(hand) |-> hand[f[i]]] :
        f \in {g \in [1..Len(hand) -> 1..Len(hand)] :
                 \A i, j \in 1..Len(hand) : g[i] = g[j] => i = j}}

\* C13: calculate_hand_score returns the sum of the rank scores of the
\* hand (2-10 at face value, Jack, Queen, King 10, Ace always 11), the same
\* for every rearrangement of the hand and 0 for the empty hand, and the
\* call changes nothing of the Game.
C13_HandScore ==
    /\ [](pc = "return" =>
            /\ result = RankSum(player_hand)
            /\ \A h \in Rearranged(player_hand) :
                  calculate_hand_score(Self, h) = result
            /\ player_hand = <<>> => result = 0)
    /\ [][pc = "calculate_hand_score" =>
            /\ status' = status /\ deck' = deck /\ used_cards' = used_cards
            /\ player_hand' = player_hand /\ casino_hand' = casino_hand
            /\ canvas' = canvas]_vars

\* The Ace of clubs, the King of clubs and the Ace of diamonds have been
\* scored 32: both Aces count 11.
C13_Witness ==
    /\ pc = "return"
    /\ player_hand = <<48, 44, 49>>
    /\ result = 32
\* The dealer's score after k cards of the hand the frame leaves.
CasinoScoreAfter(k) == calculate_hand_score(Self, SubSeq(casino_hand', 1, k))

\* C14 as stated: in the dealer's turn, whenever the dealer's score equals
\* the player's, the dealer draws another card rather than stopping.
C14_DrawsAtEqual ==
    [][FrameStarts(PlayerStopedTakingCards) =>
         \A k \in Len(casino_hand)..Len(casino_hand') :
            CasinoScoreAfter(k) = PlayerScore => k < Len(casino_hand')]_vars

\* C14, amended: in the dealer's turn, a dealer whose score equals the
\* player's draws another card if that score is below 17 and stops if it
\* is 17 or more.
C14_DrawsAtEqualBelow17 ==
    [][FrameStarts(PlayerStopedTakingCards) =>
         \A k \in Len(casino_hand)..Len(casino_hand') :
            CasinoScoreAfter(k) = PlayerScore =>
               IF CasinoScoreAfter(k) < 17
               THEN k < Len(casino_hand')
               ELSE k = Len(casino_hand')]_vars

\* The dealer's turn has been played and the dealer drew at a score equal
\* to the player's.
C14_Witness ==
    /\ FrameEnded
    /\ status.tag = "GameOver"
    /\ canvas.texts = {}
    /\ \E k \in 1..(Len(casino_hand) - 1) :
          HandScore(SubSeq(casino_hand, 1, k)) = PlayerScore
\* C15: a frame that starts in AwaitingPlayerDecision with neither F nor E
\* among its keys, whatever else is pressed, leaves the status, both hands
\* and used_cards as they were.
C15_IdleTick ==
    [][(/\ FrameStarts(AwaitingPlayerDecision)
        /\ ~contains(pressed_keycodes, "F")
        /\ ~contains(pressed_keycodes, "E")) =>
         /\ status' = AwaitingPlayerDecision
         /\ player_hand' = player_hand
         /\ casino_hand' = casino_hand
         /\ used_cards' = used_cards]_vars

\* A frame of the player's turn has run with the restart key pressed and
\* neither F nor E: the player still decides on the two cards of the deal.
C15_Witness ==
    /\ FrameEnded
    /\ Prompted
    /\ status = AwaitingPlayerDecision
    /\ contains(pressed_keycodes, "N")
    /\ ~contains(pressed_keycodes, "F")
    /\ ~contains(pressed_keycodes, "E")
    /\ Len(player_hand) = 2

\* C16 as stated: every frame that starts in Uninitialized and every frame
\* that starts in AwaitingPlayerDecision renders the hit prompt and the
\* stand prompt.
C16_PromptsInBothStates ==
    [][(FrameStarts(Uninitialized) \/ FrameStarts(AwaitingPlayerDecision)) =>
         {TAKE_ANOTHER_CARD_TEXT, STOP_TAKING_CARDS_TEXT}
            \subseteq canvas'.texts]_vars

\* C16, amended: every frame that starts in AwaitingPlayerDecision renders
\* the hit prompt and the stand prompt, whatever its keys and its outcome;
\* a frame that starts in Uninitialized renders no text.
C16_PromptsWhileAwaiting ==
    [][/\ FrameStarts(AwaitingPlayerDecision) =>
            {TAKE_ANOTHER_CARD_TEXT, STOP_TAKING_CARDS_TEXT}
               \subseteq canvas'.texts
       /\ FrameStarts(Uninitialized) => canvas'.texts = {}]_vars

\* A hit has just bust the player, and the frame rendered both prompts.
C16_Witness ==
    /\ FrameEnded
    /\ status = GameOver("Casino")
    /\ TAKE_ANOTHER_CARD_TEXT \in canvas.texts
    /\ STOP_TAKING_CARDS_TEXT \in canvas.texts
    /\ PlayerScore > TWENTY_ONE

\* C17: a frame that starts in GameOver(w) without N among its keys,
\* whatever other keys are pressed, leaves the status, both hands and
\* used_cards as they were, and renders the message for w and the restart
\* prompt and no other text.
C17_GameOverStable ==
    [][(FrameStartsGameOver /\ ~contains(pressed_keycodes, "N")) =>
         /\ status' = status
         /\ player_hand' = player_hand
         /\ casino_hand' = casino_hand
         /\ used_cards' = used_cards
         /\ canvas'.texts =
               {N_TO_RESTART_THE_GAME,
                IF status = GameOver("Player") THEN "Player wins!"
                ELSE IF status = GameOver("Casino") THEN "Casino wins!"
                ELSE "It's a tie!"}]_vars

\* A frame of a tied round has run with F and E pressed: still a tie, the
\* tie message on the canvas.
C17_Witness ==
    /\ FrameEnded
    /\ status = GameOver("Tie")
    /\ ITS_A_TIE_TEXT \in canvas.texts
    /\ contains(pressed_keycodes, "F")
    /\ contains(pressed_keycodes, "E")

\* C18: whenever the round is over and the player's score exceeds 21 the
\* winner is the casino, and the player's score is at most 21 whenever the
\* dealer's turn is to be played.
C18_BustNeverWins ==
    /\ (status.tag = "GameOver" /\ PlayerScore > TWENTY_ONE) =>
          status = GameOver("Casino")
    /\ status = PlayerStopedTakingCards => PlayerScore <= TWENTY_ONE
C20_RoundEnds ==
    /\ []<>(pc = "sleep") => []<>(status.tag = "GameOver")
    /\ [][(FrameStarts(AwaitingPlayerDecision) /\ contains(pressed_keycodes, "F")) =>
            /\ PlayerScore' > PlayerScore
            /\ PlayerScore' >= TWENTY_ONE => status' # AwaitingPlayerDecision]_vars

\* A round has ended after a hit and a stand.
C20_Witness ==
    /\ FrameEnded
    /\ status.tag = "GameOver"
    /\ canvas.texts = {}
    /\ Len(player_hand) = 3
    /\ pressed_keycodes = <<"N", "A">>
====
